---- MODULE Spec2Model ----
(***************************************************************************)
(* git-squash: model of src/main.rs.                                       *)
(*                                                                         *)
(* The repository is an object store of commits (odb), the tip reference   *)
(* (head, 0 = unborn), the staged content (index) and the working tree     *)
(* (workdir).  A commit is [parents, message, tree]; its id is its         *)
(* position in odb.  A message is [txt, len, sum]: its text, its length    *)
(* and the length of its first line (the summary).                         *)
(*                                                                         *)
(* The program is main (list candidates, select, resolve the message,      *)
(* git_soft_reset) and, as the tests do, a direct call of git_soft_reset.  *)
(* git_soft_reset runs in three steps: find_old_commit, reset, commit.     *)
(***************************************************************************)
EXTENDS Integers, Sequences, FiniteSets, TLC

VARIABLES odb, head, index, workdir, unreadable, pre,
          pc, amount, message, obj, result, shown, messages, selection

vars == <<odb, head, index, workdir, unreadable, pre,
          pc, amount, message, obj, result, shown, messages, selection>>

repoVars == <<odb, head, index, workdir, unreadable, pre>>

(* ---------------------------- bounds ----------------------------------- *)
MaxLen == 3          \* longest initial history
MaxAmount == 4       \* largest amount given on the command line
MaxUnreadable == 1   \* most commit objects whose lookup fails

(* ------------------------ program constants ---------------------------- *)
MAX_MESSAGE_LENGTH == 80
HoursWidth == 8

(* ----------------------------- values ---------------------------------- *)
Trees == {"t1", "t2"}

\* messages found in the history: a short one and a one-line message of
\* MAX_MESSAGE_LENGTH + 1 characters
HistoryMsgs ==
  { [txt |-> "short", len |-> 10, sum |-> 10],
    [txt |-> "long", len |-> MAX_MESSAGE_LENGTH + 1, sum |-> MAX_MESSAGE_LENGTH + 1] }

\* messages typed at the prompt or passed by a direct caller
InputMsgs ==
  { [txt |-> "new", len |-> 20, sum |-> 20],
    [txt |-> "max", len |-> MAX_MESSAGE_LENGTH, sum |-> MAX_MESSAGE_LENGTH],
    [txt |-> "toolong", len |-> MAX_MESSAGE_LENGTH + 1, sum |-> MAX_MESSAGE_LENGTH + 1] }

NoMessage == [txt |-> "", len |-> 0, sum |-> 0]
NoSelection == -1

Min(a, b) == IF a < b THEN a ELSE b

\* a linear history of n commits: commit i has parent i-1, the root none
LinearHistories(n) ==
  { [i \in 1..n |-> [parents |-> IF i = 1 THEN <<>> ELSE <<i - 1>>,
                     message |-> ms[i], tree |-> ts[i]]] :
      ms \in [1..n -> HistoryMsgs], ts \in [1..n -> Trees] }

(* ------------------------- the commit graph ---------------------------- *)
\* revwalk from commit h along parent links, tip first (the history is a
\* single-parent chain, so topological order is the parent chain)
RECURSIVE RevWalk(_, _)
RevWalk(o, h) ==
  IF h = 0 THEN <<>>
  ELSE <<h>> \o RevWalk(o, IF o[h].parents = <<>> THEN 0 ELSE o[h].parents[1])

\* iter_topological_commits: push_head fails on an unborn HEAD; otherwise at
\* most n results, each the commit or the error of its lookup
PushHeadFails == head = 0

iter_topological_commits(n) ==
  LET w == RevWalk(odb, head)
  IN  [i \in 1..Min(n, Len(w)) |-> [ok |-> w[i] \notin unreadable, id |-> w[i]]]

\* a boundary walk that is one commit short
BoundaryWalkLength_Short(n) == n

\* line 93: the boundary is the last of amount + 1 walked commits
BoundaryWalkLength(n) == n + 1

\* find_old_commit: the last of amount + 1 walked results
find_old_commit(n) ==
  IF PushHeadFails THEN [ok |-> FALSE, id |-> 0, err |-> "Failed to push HEAD"]
  ELSE LET it == iter_topological_commits(BoundaryWalkLength(n))
       IN  IF Len(it) = 0
           THEN [ok |-> FALSE, id |-> 0, err |-> "Failed to get last commit"]
           ELSE IF it[Len(it)].ok
                THEN [ok |-> TRUE, id |-> it[Len(it)].id, err |-> ""]
                ELSE [ok |-> FALSE, id |-> 0, err |-> "lookup"]

\* commits: the walked results whose lookup succeeded, errors skipped
RECURSIVE FilterOk(_)
FilterOk(s) ==
  IF s = <<>> THEN <<>>
  ELSE (IF Head(s).ok THEN <<Head(s).id>> ELSE <<>>) \o FilterOk(Tail(s))

commits(n) == FilterOk(iter_topological_commits(n))

\* FormatCommit::format: "<hours> <summary>", cut to MAX_MESSAGE_LENGTH
\* characters plus "..." when longer
format(c) ==
  LET raw == HoursWidth + 1 + odb[c].message.sum
  IN  [summary |-> odb[c].message.txt,
       len |-> IF raw > MAX_MESSAGE_LENGTH THEN MAX_MESSAGE_LENGTH + 3 ELSE raw,
       truncated |-> raw > MAX_MESSAGE_LENGTH]

validate_input(input) == ~(input.len > MAX_MESSAGE_LENGTH)

\* reading get(n) where get(n - 1) is meant
SelectedPosition_Next(n) == n + 1

\* match arm `n if n <= messages.len()`: the element read by get(n - 1),
\* as a 1-based position
SelectedPosition(n) == (n - 1) + 1

(* ----------------------------- reset ----------------------------------- *)
\* resets that also rewrite the index, or the index and the working tree
ResetType_Mixed == "Mixed"
ResetType_Hard == "Hard"

\* line 101: ResetType::Soft
ResetType == "Soft"

IndexAfterReset(target) ==
  IF ResetType = "Soft" THEN index ELSE odb[target].tree

WorkdirAfterReset(target) ==
  IF ResetType = "Hard" THEN odb[target].tree ELSE workdir

(* ------------------------- commit_with_msg ----------------------------- *)
\* a tree taken from the commit HEAD points to instead of from the index
write_tree_FromHead == IF head = 0 THEN index ELSE odb[head].tree

\* index.write_tree(): the tree written is the content of the index
write_tree == index

\* a commit created without its parent
Parents_None == <<>>

\* the parent list: the commit HEAD peels to, none when HEAD is unborn
Parents == IF head = 0 THEN <<>> ELSE <<head>>

NewCommit(msg) == [parents |-> Parents, message |-> msg, tree |-> write_tree]

(* ------------------------------ Init ----------------------------------- *)
Init ==
  /\ \E n \in 0..MaxLen :
       /\ odb \in LinearHistories(n)
       /\ head = n
       /\ unreadable \in { u \in SUBSET (1..n) : Cardinality(u) <= MaxUnreadable }
  /\ index \in Trees
  /\ workdir \in Trees
  /\ pre = [odb |-> odb, head |-> head, index |-> index, workdir |-> workdir]
  /\ pc = "start"
  /\ amount = 0
  /\ message = NoMessage
  /\ obj = 0
  /\ result = "none"
  /\ shown = <<>>
  /\ messages = <<>>
  /\ selection = NoSelection

(* ----------------------------- main ------------------------------------ *)
\* lines 129-140: parse the amount, walk the candidates, format them
Main_ListCandidates(amt) ==
  /\ pc = "start"
  /\ amount' = amt
  /\ IF PushHeadFails
     THEN /\ pc' = "failed"
          /\ result' = "Failed to push HEAD"
          /\ UNCHANGED <<shown, messages>>
     ELSE /\ shown' = commits(amt)
          /\ messages' = [i \in 1..Len(commits(amt)) |-> format(commits(amt)[i])]
          /\ pc' = "select"
          /\ UNCHANGED result
  /\ UNCHANGED <<repoVars, message, obj, selection>>

\* lines 142-158: the chooser returns index n; 0 asks for a typed message,
\* 1..M re-walks and reads the message of commit n-1, anything else fails
Main_Select(n) ==
  /\ pc = "select"
  /\ selection' = n
  /\ IF n = 0
     THEN /\ pc' = "prompt"
          /\ UNCHANGED <<message, result>>
     ELSE IF n <= Len(messages)
          THEN LET cs == commits(amount)
                   k == SelectedPosition(n)
               IN  IF k \in 1..Len(cs)
                   THEN /\ message' = odb[cs[k]].message
                        /\ pc' = "find"
                        /\ UNCHANGED result
                   ELSE /\ pc' = "failed"
                        /\ result' = "Failed to get commit"
                        /\ UNCHANGED message
          ELSE /\ pc' = "failed"
               /\ result' = "Invalid selection"
               /\ UNCHANGED message
  /\ UNCHANGED <<repoVars, amount, obj, shown, messages>>

\* line 147: the chooser fails (the user aborts)
Main_SelectAbort ==
  /\ pc = "select"
  /\ pc' = "failed"
  /\ result' = "Failed to et selection"
  /\ UNCHANGED <<repoVars, amount, message, obj, shown, messages, selection>>

\* lines 121-127: the prompt accepts a text that passes validate_input and
\* asks again for one that does not
Main_Prompt(text) ==
  /\ pc = "prompt"
  /\ IF validate_input(text)
     THEN /\ message' = text
          /\ pc' = "find"
     ELSE UNCHANGED <<message, pc>>
  /\ UNCHANGED <<repoVars, amount, obj, result, shown, messages, selection>>

\* line 126: the prompt fails
Main_PromptAbort ==
  /\ pc = "prompt"
  /\ pc' = "failed"
  /\ result' = "Failed to get commit message"
  /\ UNCHANGED <<repoVars, amount, message, obj, shown, messages, selection>>

(* ------------------------ git_soft_reset ------------------------------- *)
\* a caller that passes amount and message itself (tests, line 253)
GitSoftReset_Call(amt, msg) ==
  /\ pc = "start"
  /\ amount' = amt
  /\ message' = msg
  /\ pc' = "find"
  /\ UNCHANGED <<repoVars, obj, result, shown, messages, selection>>

\* a boundary error that is swallowed: the reset falls back to HEAD
GitSoftReset_Find_Swallow ==
  /\ pc = "find"
  /\ LET r == find_old_commit(amount)
     IN  obj' = IF r.ok THEN r.id ELSE head
  /\ pc' = "reset"
  /\ UNCHANGED <<repoVars, amount, message, result, shown, messages, selection>>

\* line 100: resolve the boundary; an error returns before any mutation
GitSoftReset_Find ==
  /\ pc = "find"
  /\ LET r == find_old_commit(amount)
     IN  IF r.ok
         THEN /\ obj' = r.id
              /\ pc' = "reset"
              /\ UNCHANGED result
         ELSE /\ pc' = "failed"
              /\ result' = "Failed to find old commit"
              /\ UNCHANGED obj
  /\ UNCHANGED <<repoVars, amount, message, shown, messages, selection>>

\* line 101: repo.reset(&obj, ResetType::Soft, None)
GitSoftReset_Reset ==
  /\ pc = "reset"
  /\ head' = obj
  /\ index' = IndexAfterReset(obj)
  /\ workdir' = WorkdirAfterReset(obj)
  /\ pc' = "commit"
  /\ UNCHANGED <<odb, unreadable, pre, amount, message, obj, result,
                 shown, messages, selection>>

\* line 101: the reset fails, the tip has not moved
GitSoftReset_ResetFail ==
  /\ pc = "reset"
  /\ pc' = "failed"
  /\ result' = "Failed to reset"
  /\ UNCHANGED <<repoVars, amount, message, obj, shown, messages, selection>>

\* lines 44-56, 102: write the index as a tree, commit it on HEAD's commit
\* and move HEAD to the new commit
CommitWithMsg ==
  /\ pc = "commit"
  /\ odb' = Append(odb, NewCommit(message))
  /\ head' = Len(odb) + 1
  /\ pc' = "done"
  /\ result' = "ok"
  /\ UNCHANGED <<index, workdir, unreadable, pre, amount, message, obj,
                 shown, messages, selection>>

\* lines 45-54: one of the steps of commit_with_msg fails; when it is the
\* commit call itself, the object may already be written but HEAD is not moved
CommitSteps == {"Failed to get index", "Failed to write tree",
                "Failed to get signature", "Failed to find tree",
                "Could not commit"}

\* a failed commit that puts the tip back where it was before the call
CommitWithMsg_Fail_Rollback(step, written) ==
  /\ pc = "commit"
  /\ written => step = "Could not commit"
  /\ odb' = IF written THEN Append(odb, NewCommit(message)) ELSE odb
  /\ head' = pre.head
  /\ pc' = "failed"
  /\ result' = "Failed to commit"
  /\ UNCHANGED <<index, workdir, unreadable, pre, amount, message, obj,
                 shown, messages, selection>>

CommitWithMsg_Fail(step, written) ==
  /\ pc = "commit"
  /\ written => step = "Could not commit"
  /\ odb' = IF written THEN Append(odb, NewCommit(message)) ELSE odb
  /\ pc' = "failed"
  /\ result' = "Failed to commit"
  /\ UNCHANGED <<head, index, workdir, unreadable, pre, amount, message, obj,
                 shown, messages, selection>>

(* ------------------------------ Next ----------------------------------- *)
Next ==
  \/ \E amt \in 0..MaxAmount : Main_ListCandidates(amt)
  \/ \E n \in 0..(Len(messages) + 1) : Main_Select(n)
  \/ Main_SelectAbort
  \/ \E text \in InputMsgs : Main_Prompt(text)
  \/ Main_PromptAbort
  \/ \E amt \in 0..MaxAmount, msg \in InputMsgs : GitSoftReset_Call(amt, msg)
  \/ GitSoftReset_Find
  \/ GitSoftReset_Reset
  \/ GitSoftReset_ResetFail
  \/ CommitWithMsg
  \/ \E step \in CommitSteps, written \in BOOLEAN : CommitWithMsg_Fail(step, written)

Spec == Init /\ [][Next]_vars

(* ====================== properties of the squash ======================= *)
PreWalk == RevWalk(pre.odb, pre.head)
L0 == Len(PreWalk)
NewWalk == RevWalk(odb, head)
OldObjectsKept == \A c \in DOMAIN pre.odb : odb[c] = pre.odb[c]
RepoUntouched ==
  /\ odb = pre.odb
  /\ head = pre.head
  /\ index = pre.index
SquashErrors == {"Failed to find old commit", "Failed to reset", "Failed to commit"}
\* find_old_commit has returned to git_soft_reset
SquashPastFind ==
  \/ pc \in {"reset", "commit", "done"}
  \/ (pc = "failed" /\ result \in SquashErrors)

\* C1: after a successful squash(N, msg) of a linear history of length
\* L > N, the walk from the new tip is the new commit followed by the old
\* walk from the boundary c_{L-1-N} down to the root, unchanged and in the
\* same order; the new commit carries msg; the length is L - N + 1.
C1_SquashedHistory ==
  (pc = "done" /\ amount < L0) =>
    /\ NewWalk = <<head>> \o SubSeq(PreWalk, amount + 1, L0)
    /\ head \notin DOMAIN pre.odb
    /\ odb[head].message = message
    /\ Len(NewWalk) = L0 - amount + 1
    /\ L0 - Len(NewWalk) = amount - 1
    /\ OldObjectsKept

C1_Witness ==
  /\ pc = "done"
  /\ L0 = 3
  /\ amount = 2
  /\ NewWalk = <<4, 1>>

\* C2: for a history of length L >= 1 and N >= L, squash(N, msg) fails at
\* boundary resolution and leaves tip, index and commit objects unchanged.
C2_TooManyFails ==
  (SquashPastFind /\ L0 >= 1 /\ amount >= L0) =>
    /\ pc = "failed"
    /\ result = "Failed to find old commit"
    /\ RepoUntouched

\* C3 as stated: after every successful squash the tree of the new tip is
\* the tree of the pre-squash tip.
C3_TreeAlwaysPreserved ==
  pc = "done" => odb[head].tree = pre.odb[pre.head].tree

\* C3 amended: after a successful squash called with an index equal to the
\* tree of the tip, the tree of the new tip is the tree of the pre-squash tip.
C3_TreePreservedWhenClean ==
  (pc = "done" /\ pre.index = pre.odb[pre.head].tree) =>
    odb[head].tree = pre.odb[pre.head].tree

C3_Witness ==
  /\ pc = "done"
  /\ amount >= 1
  /\ pre.index = pre.odb[pre.head].tree
  /\ odb[obj].tree # pre.odb[pre.head].tree
  /\ odb[head].tree = pre.odb[pre.head].tree

\* C4 as stated: after squash(N, msg) of a history of length L > N exactly
\* L - N commits are reachable from the new tip, and for L = 1, N = 0 the
\* new tip has no parent.
C4_LengthIsLMinusN ==
  (pc = "done" /\ amount < L0) =>
    /\ Len(NewWalk) = L0 - amount
    /\ (L0 = 1 /\ amount = 0) =>
         (odb[head].parents = <<>> /\ odb[head].message = message)

\* C4 amended: exactly L - N + 1 commits are reachable from the new tip,
\* and for L = 1, N = 0 the result is a 2-commit history whose tip is a new
\* commit with message msg and the old tip as its single parent.
C4_LengthIsLMinusNPlusOne ==
  (pc = "done" /\ amount < L0) =>
    /\ Cardinality({NewWalk[i] : i \in DOMAIN NewWalk}) = L0 - amount + 1
    /\ (L0 = 1 /\ amount = 0) =>
         /\ Len(NewWalk) = 2
         /\ odb[head].parents = <<pre.head>>
         /\ odb[head].message = message

C4_Witness ==
  /\ pc = "done"
  /\ L0 = 1
  /\ amount = 0
  /\ odb[head].parents = <<1>>

\* C5: in every state during and after git_soft_reset, and on any failure,
\* the index and the working tree are what they were when it was called.
C5_IndexAndWorkdirKept ==
  /\ index = pre.index
  /\ workdir = pre.workdir

C5_Witness ==
  /\ pc = "done"
  /\ amount >= 1
  /\ head # pre.head
  /\ odb[obj].tree # index
  /\ odb[obj].tree # workdir

\* C6: when boundary resolution fails, squash returns an error at once:
\* neither the reset nor the commit step runs and tip, index and commit
\* objects are as before the call.
C6_FindFailureStep ==
  (pc = "find" /\ ~find_old_commit(amount).ok) =>
    /\ pc' = "failed"
    /\ result' = "Failed to find old commit"
    /\ odb' = odb /\ head' = head /\ index' = index

C6_FailFast ==
  /\ [](result = "Failed to find old commit" => (pc = "failed" /\ RepoUntouched))
  /\ [][C6_FindFailureStep]_vars

C6_Witness ==
  /\ pc = "failed"
  /\ result = "Failed to find old commit"
  /\ L0 >= 2

\* C7: selecting k in 1..M resolves to the message of the commit shown as
\* candidate k, which is commit k-1 of a re-walk with the same bound;
\* selecting 0 resolves to the typed text; any other index fails with
\* "Invalid selection" and no squash is performed.
C7_SelectionRoundTrip ==
  /\ pc = "select" => (commits(amount) = shown /\ Len(messages) = Len(shown))
  /\ selection \in 1..Len(messages) =>
       /\ message = odb[shown[selection]].message
       /\ messages[selection].summary = message.txt
       /\ result \notin {"Failed to get commit", "Invalid selection"}
       /\ pc # "prompt"
  /\ selection = 0 =>
       /\ message \in InputMsgs \cup {NoMessage}
       /\ (message = NoMessage <=> (pc = "prompt" \/ result = "Failed to get commit message"))
  /\ (selection # NoSelection /\ selection \notin 0..Len(messages)) =>
       /\ pc = "failed"
       /\ result = "Invalid selection"
       /\ RepoUntouched

C7_Witness ==
  /\ pc = "find"
  /\ selection = 2
  /\ Len(shown) = 3
  /\ odb[shown[1]].message # odb[shown[2]].message
  /\ message = odb[shown[2]].message

\* C8: whenever the resolved message is longer than 80 characters, typed
\* or reused from a selected commit, the invocation fails and no squash is
\* performed; every commit created by a squash has a message of at most 80
\* characters.
C8_LengthLimitUniform ==
  selection # NoSelection =>
    /\ (message.len > MAX_MESSAGE_LENGTH => result # "ok")
    /\ (pc = "done" => odb[head].message.len <= MAX_MESSAGE_LENGTH)

\* C9: when the recommit fails after the reset, squash returns an error,
\* the tip is the boundary commit (not rolled back and not a new commit)
\* and the index is as before the call.
C9_DegradedState ==
  (pc = "failed" /\ result = "Failed to commit") =>
    /\ result # "ok"
    /\ head = obj
    /\ head = PreWalk[Min(amount + 1, L0)]
    /\ head \in DOMAIN pre.odb
    /\ index = pre.index

C9_Witness ==
  /\ pc = "failed"
  /\ result = "Failed to commit"
  /\ amount = 1
  /\ L0 = 3
  /\ head = 2
  /\ pre.head = 3

\* C10: the commit created by a successful squash has as its tree the
\* index content at the time of the call, and the tip is this new commit.
C10_TreeIsIndex ==
  pc = "done" =>
    /\ odb[head].tree = pre.index
    /\ head = Len(odb)
    /\ head \notin DOMAIN pre.odb

C10_Witness ==
  /\ pc = "done"
  /\ amount >= 1
  /\ pre.index # pre.odb[pre.head].tree
  /\ pre.index # odb[obj].tree
  /\ odb[head].tree = pre.index

====
